---- MODULE Spec2Model ----
(***************************************************************************)
(* The chat-history store (bot/services/message_service.py), the active    *)
(* chat registry (bot/handlers) and the hourly digest scheduler            *)
(* (bot/main.py, SummaryBot.send_scheduled_summaries) of the Telegram      *)
(* summary bot.                                                            *)
(*                                                                         *)
(* Time is counted in whole hours since midnight of day 0 in the summary   *)
(* timezone: date = clock \div 24, hour of day = clock % 24.               *)
(***************************************************************************)
EXTENDS Integers, Sequences, FiniteSets, TLC

(* ------------------------------ bounds -------------------------------- *)

\* config.py:36 sets MAX_MESSAGE_HISTORY = 2000; the model keeps the name and
\* scales the capacity down so that eviction happens within a few appends.
MAX_MESSAGE_HISTORY == 2

\* Messages a chat accepts into its log before the model stops feeding it.
MaxStored == 3

\* Scheduler ticks the model lets the job queue start.
MaxTicks == 2

\* ai_service.py:107 sets _MAX_IMAGE_CONVERSATION_TURNS = 15; the model keeps
\* the buffers short.
MAX_IMAGE_CONVERSATION_TURNS == 2

\* How many analyze_image calls a behaviour starts.
MaxImageCalls == 3

(* ------------------------- program constants -------------------------- *)

SUMMARY_START_HOUR == 20
SUMMARY_END_HOUR == 22
SUMMARY_HOURS == 24
HoursPerDay == 24

(* ------------------------------ inputs -------------------------------- *)

\* The calendar days the clock runs through, numbered from 0.
Days == {0, 1}

\* The day the history store is exercised on.
HistoryDays == {0}

Chats == {1, 2}
Humans == {1, 2}
Bots == {9}
Users == Humans \cup Bots

\* message.date is assigned by the platform: the current hour, or an earlier
\* one (an edited message keeps the date of the original).
DateSkews == {0, 1}

\* limit arguments tried on the queries; -1 and 0 are legal ints.
Limits == {-1, 0, 1, MAX_MESSAGE_HISTORY, MAX_MESSAGE_HISTORY + 1}

\* hours arguments tried on get_recent_messages.
HoursArgs == {0, 1, SUMMARY_HOURS}

\* hours arguments tried on get_user_messages: {} is None (the default).
OptHoursArgs == {{}, {0}, {1}}

\* user_id arguments tried on get_user_messages.
QueryUsers == {1}

VARIABLES
    clock,          \* the wall clock, in hours
    chat_data,      \* context.chat_data of every chat: 'message_history' key
    stored,         \* per chat: how many records store_message has appended
    arrivals,       \* per chat: every record appended so far, in arrival order
    query,          \* the query call of the latest step, if it was one
    active_chats,   \* context.bot_data['active_chats'] (a list)
    last_summary,   \* context.bot_data['last_summary_<chat>']: {} or {now}
    job_chat,       \* the chat the job's context carries: {} (None) or {c}
    summary_window, \* config.py: [start, end] of the summary window
    tick_pending,   \* chats registered since the tick began and not yet taken
    tick,           \* the running send_scheduled_summaries task
    ticks,          \* how many ticks have started
    sent,           \* every digest delivered: its chat, the tick and its now
    last_update,    \* the update the latest step handed to store_message
    image_histories,    \* AIService._image_conversation_histories
    image_lock,         \* AIService._image_history_lock: the tasks holding it
    image_tasks,        \* the analyze_image coroutines
    image_calls,        \* how many analyze_image calls have started
    image_appended,     \* per conversation: the turns appended since its reset
    ai_call,            \* per caller: its AIService text operation
    conversation_ids    \* the image conversation ids built so far, in order

aiVars == <<image_histories, image_lock, image_tasks, image_calls,
            image_appended, ai_call, conversation_ids>>

vars == <<clock, chat_data, stored, arrivals, query, active_chats,
          last_summary, job_chat, summary_window, tick_pending, tick, ticks,
          sent, last_update, aiVars>>

(* ------------------------------- time --------------------------------- *)

DateOf(t) == t \div HoursPerDay
HourOf(t) == t % HoursPerDay

\* The clock values the model visits: the hours around the summary window of
\* each day (one before it, those inside it, the one after it).
FirstHour == SUMMARY_START_HOUR - 1

NextClock(t) ==
    IF HourOf(t) < SUMMARY_END_HOUR
    THEN t + 1
    ELSE (DateOf(t) + 1) * HoursPerDay + FirstHour

(* --------------------------- message records -------------------------- *)

FirstName(u) == IF u = 1 THEN "Ann" ELSE IF u = 2 THEN "Bob" ELSE "Bot"
IsBot(u) == u \in Bots

\* message_service.py:100-106: the dict appended to the history.
StoredRecord(m) ==
    [user |-> FirstName(m.from_user), user_id |-> m.from_user,
     text |-> m.text, timestamp |-> m.date, message_id |-> m.message_id]

\* message_service.py:65-69 and 154-158: the dict a query returns for a record.
ReturnedRecord(msg) ==
    [user |-> msg.user, text |-> msg.text, timestamp |-> msg.timestamp]

NoHistory == [present |-> FALSE, message_history |-> <<>>]

\* `not context.chat_data.get('message_history')`: key missing or list empty.
HistoryMissing(cd) == ~cd.present \/ cd.message_history = <<>>

Min(a, b) == IF a < b THEN a ELSE b

LastN(s, n) == SubSeq(s, Len(s) - Min(n, Len(s)) + 1, Len(s))

\* Python's s[-limit:]: the last `limit` elements for limit > 0; s[-0:] is
\* s[0:], the whole list; a negative limit gives s[k:] with k = -limit.
\* Mutant of PySuffix: the whole list, whatever the limit.
PySuffix_whole(s, limit) == s

PySuffix(s, limit) ==
    IF limit > 0 THEN LastN(s, limit)
    ELSE SubSeq(s, Min(-limit, Len(s)) + 1, Len(s))

RECURSIVE MapReturned(_)
MapReturned(s) ==
    IF s = <<>> THEN <<>>
    ELSE <<ReturnedRecord(Head(s))>> \o MapReturned(Tail(s))

(* --------------------------- store_message ---------------------------- *)

\* Mutants of TruncateHistory: the truncation left out; the oldest records
\* kept instead of the newest.
TruncateHistory_never(h) == h

TruncateHistory_oldest(h) ==
    IF Len(h) > MAX_MESSAGE_HISTORY THEN SubSeq(h, 1, MAX_MESSAGE_HISTORY)
    ELSE h

\* message_service.py:109-110: truncate to the newest MAX_MESSAGE_HISTORY.
TruncateHistory(h) ==
    IF Len(h) > MAX_MESSAGE_HISTORY THEN LastN(h, MAX_MESSAGE_HISTORY) ELSE h

\* Mutant of SkipsMessage: the sender is not looked at.
SkipsMessage_any_sender(m) == ~m.has_message \/ m.text = ""

\* message_service.py:93: events that are skipped. m.has_message is FALSE for
\* an update without effective_message.
SkipsMessage(m) == ~m.has_message \/ m.text = "" \/ IsBot(m.from_user)

\* message_service.py:91-110: the chat_data of the chat after store_message.
store_message(cd, m) ==
    IF SkipsMessage(m) THEN cd
    ELSE LET h == IF HistoryMissing(cd) THEN <<>> ELSE cd.message_history
         IN [present |-> TRUE,
             message_history |-> TruncateHistory(Append(h, StoredRecord(m)))]

(* ------------------------------ queries ------------------------------- *)

\* A context carries the chat_data of one chat, or None (ctx = {}).
ContextChat(ctx) == CHOOSE c \in ctx : TRUE

\* Mutant of FilterRecent: the comparison with the cutoff left out.
FilterRecent_unfiltered(h, cutoff_time) == MapReturned(h)

\* message_service.py:60-71: filter the last `limit` records by time.
FilterRecent(h, cutoff_time) ==
    MapReturned(SelectSeq(h, LAMBDA msg : msg.timestamp >= cutoff_time))

\* message_service.py:49-71, the body of the try block: the value returned,
\* the chat_data afterwards, and whether an exception left the block
\* (None has no .get).
RecentBody(ctx, now, hours, limit) ==
    IF ctx = {}
    THEN [raised |-> TRUE, value |-> <<>>, data |-> chat_data]
    ELSE LET c == ContextChat(ctx)
             cd == chat_data[c]
             created == IF HistoryMissing(cd)
                        THEN [present |-> TRUE, message_history |-> <<>>]
                        ELSE cd
         IN [raised |-> FALSE,
             value |-> FilterRecent(PySuffix(created.message_history, limit),
                                    now - hours),
             data |-> [chat_data EXCEPT ![c] = created]]

\* message_service.py:26-75: get_recent_messages; `except Exception` turns
\* every failure of the body into an empty list.
get_recent_messages(ctx, now, hours, limit) ==
    LET r == RecentBody(ctx, now, hours, limit)
    IN IF r.raised
       THEN [raised |-> FALSE, value |-> <<>>, data |-> chat_data]
       ELSE r

\* message_service.py:145-160: filter the last `limit` records by author and,
\* when a cutoff is set, by time. cutoff is {} (None) or {time}.
FilterUser(h, user_id, cutoff) ==
    MapReturned(SelectSeq(h, LAMBDA msg :
        /\ msg.user_id = user_id
        /\ \A t \in cutoff : ~(msg.timestamp < t)))

\* message_service.py:138-160, the body of the try block. `if hours:` leaves
\* the cutoff unset for None and for 0.
UserBody(ctx, user_id, now, hours, limit) ==
    IF ctx = {}
    THEN [raised |-> TRUE, value |-> <<>>, data |-> chat_data]
    ELSE LET cd == chat_data[ContextChat(ctx)]
             cutoff == {now - h : h \in {x \in hours : x # 0}}
         IN [raised |-> FALSE,
             value |-> IF HistoryMissing(cd) THEN <<>>
                       ELSE FilterUser(PySuffix(cd.message_history, limit),
                                       user_id, cutoff),
             data |-> chat_data]

\* Mutant of get_user_messages: the history indexed directly, without the
\* .get() guard and outside the try block, so a missing key raises.
get_user_messages_direct(ctx, user_id, now, hours, limit) ==
    IF ctx = {} \/ ~chat_data[ContextChat(ctx)].present
    THEN [raised |-> TRUE, value |-> <<>>, data |-> chat_data]
    ELSE [raised |-> FALSE,
          value |-> FilterUser(
                        PySuffix(chat_data[ContextChat(ctx)].message_history,
                                 limit),
                        user_id, {now - h : h \in {x \in hours : x # 0}}),
          data |-> chat_data]

\* message_service.py:113-164: get_user_messages.
get_user_messages(ctx, user_id, now, hours, limit) ==
    LET r == UserBody(ctx, user_id, now, hours, limit)
    IN IF r.raised
       THEN [raised |-> FALSE, value |-> <<>>, data |-> chat_data]
       ELSE r

(* ---------------------- image analysis: the data --------------------- *)

\* Conversation ids (build_image_conversation_id, ai_service.py:129-133) and
\* the coroutines that may run analyze_image at the same time.
Conversations == {1, 2}
ImageTasks == {1, 2}

\* What client.responses.create (ai_service.py:430) can come back with: text,
\* no text at all (output_text empty and no text parts), or an exception
\* (a timeout included).
Responses == {"text", "empty", "raises"}

\* ai_service.py:457-469: the two entries of a turn. The prompt and the
\* analysis text are told apart by the call they belong to.
UserEntry(n) == [role |-> "user", call |-> n]
AssistantEntry(n) == [role |-> "assistant", call |-> n]

\* A conversation id that is not a key of _image_conversation_histories.
NoImageHistory == [present |-> FALSE, entries |-> <<>>]

\* Mutant of ImageHistoryMaxlen: an odd maxlen.
ImageHistoryMaxlen_odd == MAX_IMAGE_CONVERSATION_TURNS * 2 - 1

\* ai_service.py:116: maxlen of a conversation's deque.
ImageHistoryMaxlen == MAX_IMAGE_CONVERSATION_TURNS * 2

\* Mutant of DequeAppend: a deque without maxlen.
DequeAppend_unbounded(d, x) == Append(d, x)

\* deque.append on a deque with maxlen: a full deque drops its leftmost item.
DequeAppend(d, x) ==
    IF Len(d) >= ImageHistoryMaxlen THEN Append(Tail(d), x) ELSE Append(d, x)

\* Mutant of get_image_history: a new deque whatever the dictionary holds.
get_image_history_fresh(histories, conversation_id) ==
    [histories EXCEPT ![conversation_id] =
                [present |-> TRUE, entries |-> <<>>]]

\* ai_service.py:110-118: _get_image_history creates the deque of a missing
\* conversation id; the result is the dictionary after the call.
get_image_history(histories, conversation_id) ==
    IF histories[conversation_id].present THEN histories
    ELSE [histories EXCEPT ![conversation_id] =
                [present |-> TRUE, entries |-> <<>>]]

\* ai_service.py:457-469: the user entry, then the assistant entry.
AppendTurn(d, n) == DequeAppend(DequeAppend(d, UserEntry(n)), AssistantEntry(n))

\* Mutant of PopHistory: the dictionary left as it is.
PopHistory_kept(histories, conversation_id) == histories

\* ai_service.py:126: _image_conversation_histories.pop(conversation_id, None).
PopHistory(histories, conversation_id) ==
    [histories EXCEPT ![conversation_id] = NoImageHistory]

\* Mutant of LockAfterSnapshot: the lock kept over the request.
LockAfterSnapshot_held(t) == {t}

\* ai_service.py:385-386: the `async with` block of the snapshot ends before
\* the request is built and awaited, which releases the lock.
LockAfterSnapshot(t) == {}

\* Mutant of AnalysisSucceeded: an empty analysis accepted.
AnalysisSucceeded_any(response) == response # "raises"

\* ai_service.py:430-449: the call returned and the stripped text is not
\* empty; an empty text raises ValueError.
AnalysisSucceeded(response) == response = "text"

\* ai_service.py:474: what analyze_image returns from its except clause.
ImageApology == "Sorry, I couldn't analyze the image at this time."

IdleImageTask ==
    [pc |-> "idle", conversation_id |-> 0, call |-> 0, snapshot |-> <<>>,
     requests |-> 0, response |-> "", result |-> "", stale |-> FALSE]

(* ---------------------- AIService: text operations -------------------- *)

\* The operations built on client.chat.completions.create.
TextOperations ==
    {"generate_summary", "verify_statement", "generate_comment",
     "answer_question", "roast_post"}

\* What the remote call can come back with: a message with text content, a
\* message whose content is None, a response without choices, an exception.
Completions == {"text", "none", "no_choices", "raises"}

\* ai_service.py:175, 209, 254, 300, 333: the string each except clause
\* returns.
TextApology(op) ==
    IF op = "generate_summary"
    THEN "Sorry, I couldn't generate a summary at this time."
    ELSE IF op = "verify_statement"
    THEN "Sorry, I couldn't verify that statement at this time."
    ELSE IF op = "generate_comment"
    THEN "Sorry, I couldn't generate a comment at this time."
    ELSE IF op = "answer_question"
    THEN "Sorry, I couldn't answer that question at this time."
    ELSE "Sorry, I couldn't roast that post at this time."

\* ai_service.py:147-148 and 224-225: generate_summary and generate_comment
\* return at once on an empty message list.
ReturnsEarly(op, has_messages) ==
    ~has_messages /\ op \in {"generate_summary", "generate_comment"}

EarlyText(op) ==
    IF op = "generate_summary" THEN "No messages to summarize."
    ELSE "I don't see any recent messages to comment on."

\* ai_service.py:136-333: one text operation from call to return. requests
\* counts the calls of client.chat.completions.create; value is the returned
\* object: {} for None, {s} for the string s. The operation returns
\* response.choices[0].message.content as it is; everything raised inside
\* the try block becomes the apology.
text_operation(op, has_messages, completion) ==
    IF ReturnsEarly(op, has_messages)
    THEN [op |-> op, pc |-> "returned", requests |-> 0, raised |-> FALSE,
          value |-> {EarlyText(op)}]
    ELSE [op |-> op, pc |-> "returned", requests |-> 1, raised |-> FALSE,
          value |-> IF completion = "text" THEN {"text"}
                    ELSE IF completion = "none" THEN {}
                    ELSE {TextApology(op)}]

\* The coroutines that may run a text operation at the same time.
TextCallers == {1, 2}

NoCall ==
    [op |-> "none", pc |-> "idle", requests |-> 0, raised |-> FALSE,
     value |-> {""}]

(* ------------------------------ state --------------------------------- *)

NoQuery ==
    [op |-> "none", ctx |-> {}, user_id |-> 0, hours |-> {}, limit |-> 0,
     now |-> 0, before |-> NoHistory, raised |-> FALSE, value |-> <<>>]

IdleTick ==
    [pc |-> "idle", now |-> {}, idx |-> 0, chat_id |-> {}, messages |-> <<>>,
     summary |-> "", errors |-> {}]

\* The state after SummaryBot() is constructed and the job is scheduled.
\* main.py:136-140 schedules the job without a chat, so the framework decides
\* what context.chat_data is inside the job: python-telegram-bot gives None
\* (job_chat = {}); the model also admits a context carrying one fixed chat's
\* data. Either way it is the same object for every chat of the loop.
\* config.py:15-16: the window the deployment is configured with.
ConfiguredWindow ==
    [start |-> SUMMARY_START_HOUR, end |-> SUMMARY_END_HOUR]

\* The same two settings given one value: a window of zero width, at every
\* hour the clock visits.
ZeroWidthWindows ==
    {[start |-> h, end |-> h] : h \in FirstHour .. SUMMARY_END_HOUR}

InitWith(jobs, windows) ==
    /\ clock = FirstHour
    /\ chat_data = [c \in Chats |-> NoHistory]
    /\ stored = [c \in Chats |-> 0]
    /\ arrivals = [c \in Chats |-> <<>>]
    /\ query = NoQuery
    /\ active_chats = <<>>
    /\ last_summary = [c \in Chats |-> {}]
    /\ job_chat \in jobs
    /\ summary_window \in windows
    /\ tick = IdleTick
    /\ tick_pending = {}
    /\ ticks = 0
    /\ sent = <<>>
    /\ last_update = {}
    /\ image_histories = [i \in Conversations |-> NoImageHistory]
    /\ image_lock = {}
    /\ image_tasks = [t \in ImageTasks |-> IdleImageTask]
    /\ image_calls = 0
    /\ image_appended = [i \in Conversations |-> <<>>]
    /\ ai_call = [k \in TextCallers |-> NoCall]
    /\ conversation_ids = <<>>

Init ==
    InitWith({{}, {1}}, {ConfiguredWindow} \cup ZeroWidthWindows)

schedulerVars == <<active_chats, last_summary, job_chat, tick, ticks, sent>>

(* ------------------------- incoming events ---------------------------- *)

\* The events a chat can deliver at the current hour. message_id is the
\* platform's identifier; the model numbers the accepted messages of a chat.
Messages(c, users, texts, skews) ==
    {[has_message |-> TRUE, from_user |-> u, text |-> t,
      date |-> clock - k, message_id |-> stored[c] + 1] :
        u \in users, t \in texts, k \in skews}

NoMessage(c) ==
    [has_message |-> FALSE, from_user |-> 1, text |-> "",
     date |-> clock, message_id |-> stored[c] + 1]

\* Events of every kind: texts of humans, a bot's text, a message without
\* text, an update without a message.
AnyMessages(c) ==
    Messages(c, Humans, {"a"}, DateSkews) \cup Messages(c, Bots, {"a"}, {0})
        \cup Messages(c, {1}, {""}, {0}) \cup {NoMessage(c)}

\* message_handlers.py:40-52: handle_text_message stores the message in the
\* chat_data of the chat the update came from.
handle_text_message(c, m) ==
    /\ stored[c] < MaxStored
    /\ chat_data' = [chat_data EXCEPT ![c] = store_message(chat_data[c], m)]
    /\ stored' = [stored EXCEPT ![c] = IF SkipsMessage(m) THEN @ ELSE @ + 1]
    /\ arrivals' = [arrivals EXCEPT ![c] =
                        IF SkipsMessage(m) THEN @
                        ELSE Append(@, StoredRecord(m))]
    /\ query' = NoQuery
    /\ last_update' = {m}
    /\ UNCHANGED <<aiVars, summary_window, tick_pending>>
    /\ UNCHANGED <<clock, schedulerVars>>

\* Time passes; a tick finishes within the hour it started in (every network
\* call of the tick is bounded by the timeouts of main.py:61-64).
Advance(days) ==
    /\ tick.pc = "idle"
    /\ DateOf(NextClock(clock)) \in days
    /\ clock' = NextClock(clock)
    /\ query' = NoQuery
    /\ tick' = IdleTick
    /\ tick_pending' = {}
    /\ last_update' = {}
    /\ UNCHANGED <<aiVars, summary_window>>
    /\ UNCHANGED <<chat_data, stored, arrivals, active_chats, last_summary,
                   job_chat, ticks, sent>>

\* A direct call of MessageService.get_recent_messages in the context of
\* chat c (command_handlers.py:141, 243, 312 call it with limit defaulted).
\* The model looks at one call at a time: `query` holds the call until the
\* next event.
QueryRecent(c, hours, limit) ==
    LET r == get_recent_messages({c}, clock, hours, limit)
    IN /\ query.op = "none"
       /\ query' = [op |-> "get_recent_messages", ctx |-> {c}, user_id |-> 0,
                    hours |-> {hours}, limit |-> limit, now |-> clock,
                    before |-> chat_data[c], raised |-> r.raised,
                    value |-> r.value]
       /\ chat_data' = r.data
       /\ last_update' = {}
       /\ UNCHANGED <<aiVars, summary_window, tick_pending>>
       /\ UNCHANGED <<clock, stored, arrivals, schedulerVars>>

\* A direct call of MessageService.get_user_messages in the context of chat c.
QueryUser(c, user_id, hours, limit) ==
    LET r == get_user_messages({c}, user_id, clock, hours, limit)
    IN /\ query.op = "none"
       /\ query' = [op |-> "get_user_messages", ctx |-> {c},
                    user_id |-> user_id, hours |-> hours, limit |-> limit,
                    now |-> clock, before |-> chat_data[c],
                    raised |-> r.raised, value |-> r.value]
       /\ chat_data' = r.data
       /\ last_update' = {}
       /\ UNCHANGED <<aiVars, summary_window, tick_pending>>
       /\ UNCHANGED <<clock, stored, arrivals, schedulerVars>>

(* ------------------------ active chat registry ------------------------ *)

InList(s, x) == \E i \in 1 .. Len(s) : s[i] = x

\* list.remove(x): drop the first occurrence of x.
RECURSIVE ListRemove(_, _)
ListRemove(s, x) ==
    IF s = <<>> THEN <<>>
    ELSE IF Head(s) = x THEN Tail(s)
    ELSE <<Head(s)>> \o ListRemove(Tail(s), x)

\* command_handlers.py:52-59 and message_handlers.py:78-82: append the chat
\* unless it is already listed.
RegisterChat(s, c) == IF InList(s, c) THEN s ELSE Append(s, c)

\* command_handlers.py:46-72: /start registers the chat.
start(c) ==
    /\ active_chats' = RegisterChat(active_chats, c)
    /\ last_update' = {}
    /\ UNCHANGED <<aiVars, summary_window, tick_pending>>
    /\ UNCHANGED <<clock, chat_data, stored, arrivals, query, last_summary,
                   job_chat, tick, ticks, sent>>

\* message_handlers.py:57-100: the chat is registered when the bot itself is
\* among the new members.
handle_new_chat_members(c, bot_added) ==
    /\ active_chats' = IF bot_added THEN RegisterChat(active_chats, c)
                       ELSE active_chats
    /\ last_update' = {}
    /\ UNCHANGED <<aiVars, summary_window, tick_pending>>
    /\ UNCHANGED <<clock, chat_data, stored, arrivals, query, last_summary,
                   job_chat, tick, ticks, sent>>

\* message_handlers.py:102-129: when the bot is removed from a registered
\* chat, the chat leaves the list and every key of its chat_data is deleted.
\* bot_data (and with it last_summary_<chat>) is not touched.
handle_left_chat_member(c, bot_left) ==
    LET removes == bot_left /\ InList(active_chats, c)
    IN /\ active_chats' = IF removes THEN ListRemove(active_chats, c)
                          ELSE active_chats
       /\ chat_data' = IF removes THEN [chat_data EXCEPT ![c] = NoHistory]
                       ELSE chat_data
       /\ arrivals' = IF removes THEN [arrivals EXCEPT ![c] = <<>>]
                      ELSE arrivals
       /\ tick_pending' = IF removes THEN tick_pending \ {c}
                          ELSE tick_pending
       /\ last_update' = {}
       /\ UNCHANGED <<aiVars, summary_window>>
       /\ UNCHANGED <<clock, stored, query, last_summary, job_chat, tick,
                      ticks, sent>>

(* ------------------------- the digest scheduler ----------------------- *)

\* Mutant of InSummaryWindow: the end hour included.
InSummaryWindow_inclusive(now) ==
    summary_window.start <= HourOf(now) /\ HourOf(now) <= summary_window.end

\* main.py:151-154: SUMMARY_START_HOUR <= now.hour < SUMMARY_END_HOUR.
InSummaryWindow(now) ==
    summary_window.start <= HourOf(now) /\ HourOf(now) < summary_window.end

\* Mutants of AlreadySentToday: the datetimes compared instead of their
\* dates; any recorded summary taken as today's.
AlreadySentToday_exact(ls, now) == \E t \in ls : t = now

AlreadySentToday_ever(ls, now) == ls # {}

\* main.py:161-163: a summary was already recorded on now's date. ls is the
\* value of last_summary_<chat>: {} (None) or {datetime}.
AlreadySentToday(ls, now) == \E t \in ls : DateOf(t) = DateOf(now)

\* main.py:158-166: the for loop runs on, without suspending, over the chats
\* that are skipped by `continue`; the result is the position of the next
\* chat it calls get_chat for, or 0 when the list is exhausted. The iterator
\* reads the live list: i is the number of items it has consumed.
RECURSIVE NextToFetch(_, _, _, _)
NextToFetch(chat_ids, summaries, i, now) ==
    IF i >= Len(chat_ids) THEN 0
    ELSE IF AlreadySentToday(summaries[chat_ids[i + 1]], now)
         THEN NextToFetch(chat_ids, summaries, i + 1, now)
         ELSE i + 1

\* main.py:156: the chats the registry lists when the loop starts.
Registered(chat_ids) == {chat_ids[k] : k \in 1 .. Len(chat_ids)}

\* main.py:158: the chats the list iterator hands to the loop body when it
\* moves from position i to position p (p = 0: to the end of the list).
Taken(chat_ids, i, p) ==
    {chat_ids[k] : k \in (i + 1) .. (IF p = 0 THEN Len(chat_ids) ELSE p)}

\* The chats of `pend` still not handed to the loop body once the task, which
\* was at position i, has become t2.
PendingAfter(pend, chat_ids, i, t2) ==
    pend \ Taken(chat_ids, i, IF t2.pc = "idle" THEN 0 ELSE t2.idx)

\* The task after it has finished with the chat at position t.idx: suspended
\* in get_chat for the next chat, or finished. A finished task keeps its
\* `now` and the chats it logged an error for (main.py:185-186) until the
\* hour is over or the next tick starts.
ContinueLoop(t, chat_ids, summaries) ==
    LET p == NextToFetch(chat_ids, summaries, t.idx, CHOOSE n \in t.now : TRUE)
    IN IF p = 0
       THEN [IdleTick EXCEPT !.now = t.now, !.errors = t.errors]
       ELSE [t EXCEPT !.pc = "get_chat", !.idx = p, !.chat_id = {chat_ids[p]},
                      !.messages = <<>>, !.summary = ""]

TickNow == CHOOSE n \in tick.now : TRUE
TickChat == CHOOSE c \in tick.chat_id : TRUE

\* main.py:142-156: the job queue starts send_scheduled_summaries; outside
\* the window the call returns at once.
TickStart ==
    /\ tick.pc = "idle"
    /\ ticks < MaxTicks
    /\ ticks' = ticks + 1
    /\ tick' = IF InSummaryWindow(clock)
               THEN ContinueLoop([IdleTick EXCEPT !.now = {clock}],
                                 active_chats, last_summary)
               ELSE [IdleTick EXCEPT !.now = {clock}]
    /\ tick_pending' = IF InSummaryWindow(clock)
                       THEN PendingAfter(Registered(active_chats),
                                         active_chats, 0, tick')
                       ELSE {}
    /\ last_update' = {}
    /\ UNCHANGED <<aiVars, summary_window>>
    /\ UNCHANGED <<clock, chat_data, stored, arrivals, query, active_chats,
                   last_summary, job_chat, sent>>

\* Mutant of LogError: the exception leaves the for loop (the try around the
\* loop instead of inside it), so the iterator is never asked again.
LogError_abort(t) ==
    [t EXCEPT !.errors = @ \cup t.chat_id, !.idx = Len(active_chats)]

\* main.py:185-186: the exception of a chat's turn is caught and logged.
LogError(t) == [t EXCEPT !.errors = @ \cup t.chat_id]

\* main.py:166-171: get_chat returns (ok) or raises; on success the messages
\* are read through the job's context and an empty result ends the chat's turn.
\* Mutant of HasMessages: the digest is made whatever the query returned.
HasMessages_always(messages) == TRUE

\* main.py:171: `if messages:`, an empty list is falsy.
HasMessages(messages) == messages # <<>>

GetChatReturns(ok) ==
    /\ tick.pc = "get_chat"
    /\ LET r == get_recent_messages(job_chat, clock, SUMMARY_HOURS,
                                    MAX_MESSAGE_HISTORY)
       IN IF ~ok
          THEN /\ tick' = ContinueLoop(LogError(tick), active_chats,
                                        last_summary)
               /\ chat_data' = chat_data
          ELSE /\ chat_data' = r.data
               /\ tick' = IF HasMessages(r.value)
                          THEN [tick EXCEPT !.pc = "generate_summary",
                                            !.messages = r.value]
                          ELSE ContinueLoop(tick, active_chats, last_summary)
    /\ tick_pending' = PendingAfter(tick_pending, active_chats, tick.idx, tick')
    /\ last_update' = {}
    /\ UNCHANGED <<aiVars, summary_window>>
    /\ UNCHANGED <<clock, stored, arrivals, query, active_chats, last_summary,
                   job_chat, ticks, sent>>

\* ai_service.py:136-175: generate_summary returns the model's text, or its
\* apology string when the call fails; it never raises.
generate_summary(ok) == IF ok THEN "summary" ELSE "apology"

\* main.py:173: the summary comes back and send_message is issued.
SummaryReturns(ok) ==
    /\ tick.pc = "generate_summary"
    /\ tick' = [tick EXCEPT !.pc = "send_message",
                            !.summary = generate_summary(ok)]
    /\ last_update' = {}
    /\ UNCHANGED <<aiVars, summary_window, tick_pending>>
    /\ UNCHANGED <<clock, chat_data, stored, arrivals, query, active_chats,
                   last_summary, job_chat, ticks, sent>>

\* Mutants of RecordSummary: the assignment left out; the time recorded for
\* every chat instead of under the key of chat_id.
RecordSummary_forgotten(summaries, c, now) == summaries

RecordSummary_everyone(summaries, c, now) == [x \in Chats |-> {now}]

\* main.py:183: last_summary_<chat_id> = now.
RecordSummary(summaries, c, now) == [summaries EXCEPT ![c] = {now}]

\* main.py:176-186: send_message returns (ok) and the send is recorded, or it
\* raises and the exception is logged; the loop goes on either way.
SendReturns(ok) ==
    /\ tick.pc = "send_message"
    /\ LET summaries == IF ok
                        THEN RecordSummary(last_summary, TickChat, TickNow)
                        ELSE last_summary
       IN /\ last_summary' = summaries
          /\ tick' = ContinueLoop(IF ok THEN tick ELSE LogError(tick),
                                   active_chats, summaries)
    /\ sent' = IF ok
               THEN Append(sent, [chat_id |-> TickChat, now |-> TickNow,
                                  tick |-> ticks])
               ELSE sent
    /\ tick_pending' = PendingAfter(tick_pending, active_chats, tick.idx, tick')
    /\ last_update' = {}
    /\ UNCHANGED <<aiVars, summary_window>>
    /\ UNCHANGED <<clock, chat_data, stored, arrivals, query, active_chats,
                   job_chat, ticks>>

(* --------------------------- specifications --------------------------- *)

\* The bot: incoming messages, registry events, the clock and the scheduler.
Next ==
    \/ \E c \in Chats : \E m \in Messages(c, {1}, {"a"}, {0}) :
            stored[c] = 0 /\ handle_text_message(c, m)
    \/ \E c \in Chats : start(c)
    \/ \E c \in Chats, b \in BOOLEAN : handle_new_chat_members(c, b)
    \/ \E c \in Chats, b \in BOOLEAN : handle_left_chat_member(c, b)
    \/ Advance(Days)
    \/ TickStart
    \/ \E ok \in BOOLEAN : GetChatReturns(ok)
    \/ \E ok \in BOOLEAN : SummaryReturns(ok)
    \/ \E ok \in BOOLEAN : SendReturns(ok)

Spec == Init /\ [][Next]_vars

\* The history store on its own: every kind of incoming event and direct
\* calls of the two queries, with the scheduler idle.
HistoryChats == {1}

InitHistory == InitWith({{}}, {ConfiguredWindow})

NextHistory ==
    \/ \E c \in HistoryChats :
         \E m \in AnyMessages(c) :
            handle_text_message(c, m)
    \/ Advance(HistoryDays)
    \/ \E c \in HistoryChats, h \in HoursArgs, l \in Limits :
            QueryRecent(c, h, l)
    \/ \E c \in HistoryChats, u \in QueryUsers, h \in OptHoursArgs,
            l \in Limits :
            QueryUser(c, u, h, l)

SpecHistory == InitHistory /\ [][NextHistory]_vars

(* --------------------- image analysis: the steps ---------------------- *)

\* Everything outside AIService.
botVars ==
    <<clock, chat_data, stored, arrivals, query, active_chats, last_summary,
      job_chat, summary_window, tick_pending, tick, ticks, sent,
      last_update>>

\* What the image analysis steps leave alone in AIService.
callVars == <<ai_call, conversation_ids>>

Task(t) == image_tasks[t]

\* ai_service.py:346-385: analyze_image is called and runs, without
\* suspending, up to the `async with` of the snapshot.
analyze_image(t, conversation_id) ==
    /\ Task(t).pc = "idle"
    /\ image_calls < MaxImageCalls
    /\ image_calls' = image_calls + 1
    /\ image_tasks' = [image_tasks EXCEPT ![t] =
            [IdleImageTask EXCEPT !.pc = "wait_snapshot",
                                  !.conversation_id = conversation_id,
                                  !.call = image_calls + 1]]
    /\ UNCHANGED <<botVars, callVars, image_histories, image_lock,
                   image_appended>>

\* ai_service.py:385 and 455: `async with _image_history_lock` acquires the
\* lock once no task holds it.
AcquireLock(t) ==
    /\ Task(t).pc \in {"wait_snapshot", "wait_append"}
    /\ image_lock = {}
    /\ image_lock' = {t}
    /\ image_tasks' = [image_tasks EXCEPT ![t].pc =
            IF @ = "wait_snapshot" THEN "snapshot" ELSE "append"]
    /\ UNCHANGED <<botVars, callVars, image_histories, image_calls,
                   image_appended>>

\* ai_service.py:386-430: the history is copied, the block ends, the request
\* is built from the copy and client.responses.create is awaited.
TakeSnapshot(t) ==
    LET histories == get_image_history(image_histories,
                                       Task(t).conversation_id)
    IN /\ Task(t).pc = "snapshot"
       /\ image_histories' = histories
       /\ image_lock' = LockAfterSnapshot(t)
       /\ image_tasks' = [image_tasks EXCEPT
                ![t].pc = "call",
                ![t].snapshot = histories[Task(t).conversation_id].entries,
                ![t].requests = @ + 1]
          /\ UNCHANGED <<botVars, callVars, image_calls, image_appended>>

\* ai_service.py:430-455 and 472-474: the request ends. A usable text takes
\* the task to the `async with` of the update; anything else is caught by the
\* except clause and the apology is returned.
ResponseArrives(t, response) ==
    /\ Task(t).pc = "call"
    /\ image_tasks' = [image_tasks EXCEPT ![t] =
            IF AnalysisSucceeded(response)
            THEN [@ EXCEPT !.pc = "wait_append", !.snapshot = <<>>,
                           !.response = response]
            ELSE [@ EXCEPT !.pc = "idle", !.snapshot = <<>>,
                           !.response = response, !.result = ImageApology]]
    /\ UNCHANGED <<botVars, callVars, image_histories, image_lock,
                   image_calls, image_appended>>

\* ai_service.py:456-471: the turn is appended, the lock is released and the
\* analysis text is returned.
AppendAndReturn(t) ==
    LET id == Task(t).conversation_id
        histories == get_image_history(image_histories, id)
    IN /\ Task(t).pc = "append"
       /\ image_histories' = [histories EXCEPT ![id].entries =
                                    AppendTurn(@, Task(t).call)]
       /\ image_lock' = {}
       /\ image_tasks' = [image_tasks EXCEPT ![t].pc = "idle",
                                             ![t].result = "text"]
       /\ image_appended' = [image_appended EXCEPT ![id] =
                                    Append(@, Task(t).call)]
          /\ UNCHANGED <<botVars, callVars, image_calls>>

\* ai_service.py:386-455: a request on conversation_id that has copied the
\* history and has not yet taken the lock again to append its turn.
SnapshotPending(task, conversation_id) ==
    /\ task.conversation_id = conversation_id
    /\ task.pc \in {"call", "wait_append"}

\* ai_service.py:121-126 (called by /reset, command_handlers.py:413-423):
\* the lock is taken, the conversation's deque is popped, the lock is
\* released, with no suspension in between once the lock is free. A request
\* that copied the history before this reset is marked `stale`.
reset_image_conversation(conversation_id) ==
    /\ image_lock = {}
    /\ image_histories' = PopHistory(image_histories, conversation_id)
    /\ image_appended' = [image_appended EXCEPT ![conversation_id] = <<>>]
    /\ image_tasks' = [t \in ImageTasks |->
            IF SnapshotPending(Task(t), conversation_id)
            THEN [Task(t) EXCEPT !.stale = TRUE]
            ELSE Task(t)]
    /\ UNCHANGED <<botVars, callVars, image_lock, image_calls>>

\* AIService's image analysis on its own: analyses that interleave at their
\* suspension points, and resets.
NextAI ==
    \/ \E t \in ImageTasks, i \in Conversations : analyze_image(t, i)
    \/ \E t \in ImageTasks : AcquireLock(t)
    \/ \E t \in ImageTasks : TakeSnapshot(t)
    \/ \E t \in ImageTasks, r \in Responses :
            ResponseArrives(t, r)
    \/ \E t \in ImageTasks : AppendAndReturn(t)
    \/ \E i \in Conversations : reset_image_conversation(i)

SpecAI == InitHistory /\ [][NextAI]_vars

(* ------------------- AIService: text operations, steps ---------------- *)

imageVars ==
    <<image_histories, image_lock, image_tasks, image_calls, image_appended>>

\* ai_service.py:136-160 (and 178-194, 212-239, 257-288, 303-318): an
\* operation is called; it returns at once on an empty message list, or
\* builds its prompt and awaits client.chat.completions.create.
TextCall(k, op, has_messages) ==
    /\ ai_call[k].pc # "awaiting"
    /\ ai_call' = [ai_call EXCEPT ![k] =
            IF ReturnsEarly(op, has_messages)
            THEN text_operation(op, has_messages, "text")
            ELSE [op |-> op, pc |-> "awaiting", requests |-> 1,
                  raised |-> FALSE, value |-> {""}]]
    /\ UNCHANGED <<botVars, imageVars, conversation_ids>>

\* ai_service.py:160-175 (and the like): the awaited call ends and the
\* operation returns.
TextReturn(k, completion) ==
    /\ ai_call[k].pc = "awaiting"
    /\ ai_call' = [ai_call EXCEPT ![k] =
            text_operation(ai_call[k].op, TRUE, completion)]
    /\ UNCHANGED <<botVars, imageVars, conversation_ids>>

\* The text operations on their own, two callers at a time.
NextText ==
    \/ \E k \in TextCallers, op \in TextOperations, m \in BOOLEAN :
            TextCall(k, op, m)
    \/ \E k \in TextCallers, c \in Completions : TextReturn(k, c)

SpecText == InitHistory /\ [][NextText]_vars

(* ------------------ AIService: image conversation ids ----------------- *)

\* Telegram chat ids (negative for groups) and user ids; {} is a missing
\* effective_user (command_handlers.py:387).
ChatIds == {-1, 1, 11}
UserIds == {{}, {1}, {2}, {12}}

\* How many ids a behaviour builds.
MaxBuiltIds == 2

\* str(int) and the f-string's default format of an int: the decimal digits,
\* most significant first, after a minus sign for a negative number. A
\* string is the sequence of its characters.
Digit(d) == <<"0", "1", "2", "3", "4", "5", "6", "7", "8", "9">>[d + 1]

RECURSIVE NatStr(_)
NatStr(n) ==
    IF n < 10 THEN <<Digit(n)>>
    ELSE Append(NatStr(n \div 10), Digit(n % 10))

Str(n) == IF n < 0 THEN <<"-">> \o NatStr(0 - n) ELSE NatStr(n)

\* Mutant of build_image_conversation_id: the two numbers with no separator.
build_image_conversation_id_joined(chat_id, user_id) ==
    IF user_id # {}
    THEN Str(chat_id) \o Str(CHOOSE u \in user_id : TRUE)
    ELSE Str(chat_id)

\* ai_service.py:129-133: f"{chat_id}:{user_id}" if user_id is not None
\* else str(chat_id).
build_image_conversation_id(chat_id, user_id) ==
    IF user_id # {}
    THEN Str(chat_id) \o <<":">> \o Str(CHOOSE u \in user_id : TRUE)
    ELSE Str(chat_id)

\* command_handlers.py:387-391: /analyze builds the conversation id of its
\* request from the chat and the effective user.
BuildConversationId(chat_id, user_id) ==
    /\ Len(conversation_ids) < MaxBuiltIds
    /\ conversation_ids' = Append(conversation_ids,
            [chat_id |-> chat_id, user_id |-> user_id,
             id |-> build_image_conversation_id(chat_id, user_id)])
    /\ UNCHANGED <<botVars, imageVars, ai_call>>

NextIds ==
    \E c \in ChatIds, u \in UserIds : BuildConversationId(c, u)

SpecIds == InitHistory /\ [][NextIds]_vars

(* ------------------------------ claims -------------------------------- *)

History(c) == chat_data[c].message_history

RECURSIVE IsSubsequence(_, _)
IsSubsequence(a, b) ==
    IF a = <<>> THEN TRUE
    ELSE IF b = <<>> THEN FALSE
    ELSE IF Head(a) = Head(b) THEN IsSubsequence(Tail(a), Tail(b))
    ELSE IsSubsequence(a, Tail(b))

WindowHours == summary_window.start .. (summary_window.end - 1)

\* C1: after any sequence of store_message calls, a chat's message_history
\* never holds more than MAX_MESSAGE_HISTORY records.
C1_HistoryBounded ==
    \A c \in Chats : Len(History(c)) <= MAX_MESSAGE_HISTORY

\* A chat that was sent more messages than the capacity holds exactly the
\* capacity.
C1_Witness ==
    \E c \in Chats :
        /\ Len(arrivals[c]) > MAX_MESSAGE_HISTORY
        /\ Len(History(c)) = MAX_MESSAGE_HISTORY

\* C2: after n stored messages the log is the last min(n, capacity) of them,
\* in arrival order.
C2_NewestInArrivalOrder ==
    \A c \in Chats :
        LET n == Len(arrivals[c])
            k == IF n < MAX_MESSAGE_HISTORY THEN n ELSE MAX_MESSAGE_HISTORY
        IN History(c) = [i \in 1 .. k |-> arrivals[c][n - k + i]]

\* Scenario A at the model's capacity: one message more than the capacity
\* arrived and the oldest is gone.
C2_Witness ==
    \E c \in Chats :
        /\ Len(arrivals[c]) = MAX_MESSAGE_HISTORY + 1
        /\ History(c) = Tail(arrivals[c])
        /\ arrivals[c][1] # arrivals[c][2]

\* C3: for every limit >= 0 (0 included) a query returns no more than
\* `limit` records.
C3_AtMostLimit ==
    (query.op # "none" /\ query.limit >= 0)
        => Len(query.value) <= query.limit

\* C4: every record get_recent_messages returns has timestamp >= now - hours,
\* and the returned records are in the order of the log.
C4_RecentAndOrdered ==
    query.op = "get_recent_messages" =>
        /\ \A i \in 1 .. Len(query.value), h \in query.hours :
                query.value[i].timestamp >= query.now - h
        /\ IsSubsequence(query.value,
                         MapReturned(query.before.message_history))

\* get_recent_messages returned two different records of a full log.
C4_Witness ==
    /\ query.op = "get_recent_messages"
    /\ query.hours = {1}
    /\ Len(query.value) = 2
    /\ query.value[1] # query.value[2]

\* C5: a query on a chat whose history is empty or was never created returns
\* an empty list and raises nothing.
C5_EmptyLogEmptyResult ==
    (query.op # "none" /\ HistoryMissing(query.before)) =>
        /\ query.value = <<>>
        /\ ~query.raised

\* get_user_messages was called on a chat that never had a history.
C5_Witness ==
    /\ query.op = "get_user_messages"
    /\ ~query.before.present

\* C6: no chat is sent two scheduled digests on the same calendar date.
C6_OneDigestPerDate ==
    \A i, j \in 1 .. Len(sent) :
        (i < j /\ sent[i].chat_id = sent[j].chat_id)
            => DateOf(sent[i].now) # DateOf(sent[j].now)

\* A chat has been sent a digest twice (on different dates).
C6_Witness ==
    \E i, j \in 1 .. Len(sent) : i < j /\ sent[i].chat_id = sent[j].chat_id

\* C7: when a tick sent a digest to a chat, the next tick, if it runs inside
\* the window on the same date, sends nothing to that chat.
C7_SecondTickSilent ==
    \A i, j \in 1 .. Len(sent) :
        ~ /\ sent[i].chat_id = sent[j].chat_id
          /\ sent[j].tick = sent[i].tick + 1
          /\ DateOf(sent[j].now) = DateOf(sent[i].now)
          /\ HourOf(sent[j].now) \in WindowHours

\* The tick after the one that sent the digest has run to its end one hour
\* later, on the same date and inside the window, with the chat still
\* registered.
C7_Witness ==
    \E i \in 1 .. Len(sent) :
        /\ sent[i].tick = ticks - 1
        /\ tick.pc = "idle"
        /\ tick.now = {sent[i].now + 1}
        /\ HourOf(sent[i].now + 1) \in WindowHours
        /\ InList(active_chats, sent[i].chat_id)

\* C8: inside the window the loop passes over a registered chat without
\* fetching it only if its last summary is of today; a chat whose last
\* summary is of an earlier date is not skipped.
C8_PriorDateNotSkipped ==
    [][\A k \in 1 .. Len(active_chats) :
        ( /\ tick' # tick
          /\ \E n \in tick'.now : HourOf(n) \in WindowHours
          /\ tick.idx < k
          /\ tick'.pc = "idle" \/ tick'.idx > k )
        => \E n \in tick'.now, t \in last_summary'[active_chats[k]] :
                DateOf(t) = DateOf(n)]_vars

\* The tick is fetching a chat whose last summary is of an earlier date.
C8_Witness ==
    /\ tick.pc = "get_chat"
    /\ \E c \in tick.chat_id, n \in tick.now :
            \E t \in last_summary[c] : DateOf(t) < DateOf(n)

\* The messages of chat c's own log that are at most SUMMARY_HOURS old.
OwnRecent(c) ==
    {i \in 1 .. Len(History(c)) :
        History(c)[i].timestamp >= clock - SUMMARY_HOURS}

\* C9: in the window, when get_chat succeeds for a chat whose own log holds a
\* record of the last 24 hours, the tick goes on to summarise that chat's own
\* records; and when the send succeeds, exactly one digest is recorded for
\* the chat and its last summary is set to the tick's now.
C9_OwnLogDigest ==
    [][ /\ ( /\ tick.pc = "get_chat"
             /\ tick' # tick
             /\ tick'.errors = tick.errors
             /\ \A c \in tick.chat_id : OwnRecent(c) # {} )
          => /\ tick'.pc = "generate_summary"
             /\ \A c \in tick.chat_id :
                    tick'.messages =
                        MapReturned(SelectSeq(History(c), LAMBDA msg :
                            msg.timestamp >= clock - SUMMARY_HOURS))
        /\ ( /\ tick.pc = "send_message"
             /\ tick' # tick
             /\ tick'.errors = tick.errors )
          => /\ Len(sent') = Len(sent) + 1
             /\ \A c \in tick.chat_id :
                    /\ sent'[Len(sent')].chat_id = c
                    /\ last_summary'[c] = tick.now ]_vars

\* C10: a tick whose hour is outside [SUMMARY_START_HOUR, SUMMARY_END_HOUR)
\* ends at once; every digest sent and every last summary recorded belongs to
\* a tick inside the window.
C10_OutsideWindowNothing ==
    /\ \A i \in 1 .. Len(sent) : HourOf(sent[i].now) \in WindowHours
    /\ \A c \in Chats : \A t \in last_summary[c] : HourOf(t) \in WindowHours
    /\ \A n \in tick.now :
            HourOf(n) \notin WindowHours => tick.pc = "idle"

\* A tick at the end hour has run while a registered chat was due: it has no
\* summary of today and the log the job reads holds a record of the last
\* 24 hours.
C10_Witness ==
    /\ tick.pc = "idle"
    /\ \E n \in tick.now : HourOf(n) = SUMMARY_END_HOUR
    /\ \E c \in Chats :
            /\ InList(active_chats, c)
            /\ last_summary[c] = {}
            /\ \A j \in job_chat : OwnRecent(j) # {}
            /\ job_chat # {}

\* C11: when a chat's turn ends in an exception (get_chat or send_message
\* raised), the loop goes on: the tick next evaluates the first chat further
\* down the registry that has no summary of today, and ends only when there
\* is none.
C11_FailureIsolated ==
    [][ (tick.pc # "idle" /\ tick'.errors # tick.errors) =>
          LET rest == {k \in (tick.idx + 1) .. Len(active_chats) :
                          \A t \in last_summary'[active_chats[k]] :
                              \A n \in tick.now : DateOf(t) # DateOf(n)}
          IN IF rest = {} THEN tick'.pc = "idle"
             ELSE /\ tick'.pc = "get_chat"
                  /\ tick'.idx \in rest
                  /\ \A k \in rest : tick'.idx <= k
                  /\ tick'.chat_id = {active_chats[tick'.idx]} ]_vars

\* In one tick the turn of the first registered chat failed and the second
\* registered chat was sent its digest.
C11_Witness ==
    /\ Len(active_chats) = 2
    /\ active_chats[1] \in tick.errors
    /\ \E i \in 1 .. Len(sent) :
            /\ sent[i].tick = ticks
            /\ sent[i].now \in tick.now
            /\ sent[i].chat_id = active_chats[2]

\* C12: a chat's last summary changes only in the step in which send_message
\* for that chat returns successfully (a digest is recorded as sent and no
\* error is logged), and it becomes the tick's now; a failing get_chat or
\* send_message changes no last summary.
C12_SetOnlyAfterSend ==
    [][ /\ \A c \in Chats :
              last_summary'[c] # last_summary[c] =>
                  /\ tick.pc = "send_message"
                  /\ tick.chat_id = {c}
                  /\ tick'.errors = tick.errors
                  /\ Len(sent') = Len(sent) + 1
                  /\ sent'[Len(sent')].chat_id = c
                  /\ last_summary'[c] = tick.now
        /\ (tick.pc # "idle" /\ tick'.errors # tick.errors)
              => last_summary' = last_summary ]_vars

\* In one tick a chat's turn failed and left it without a last summary while
\* another chat's send succeeded and recorded the tick's now.
C12_Witness ==
    /\ tick.now # {}
    /\ \E c \in Chats : last_summary[c] = tick.now
    /\ \E d \in tick.errors : last_summary[d] = {}

C20_OnlyHumanText ==
    [][ /\ \A c \in Chats :
              \A i \in 1 .. Len(chat_data'[c].message_history) :
                  /\ chat_data'[c].message_history[i].text # ""
                  /\ chat_data'[c].message_history[i].user_id \notin Bots
        /\ \A m \in last_update' :
              (~m.has_message \/ m.text = "" \/ m.from_user \in Bots)
                  => chat_data' = chat_data ]_vars

\* A bot's text has just been handed to store_message while the chat held a
\* record.
C20_Witness ==
    /\ \E m \in last_update :
            m.has_message /\ m.text # "" /\ m.from_user \in Bots
    /\ \E c \in Chats : Len(History(c)) > 0

Entries(i) == image_histories[i].entries

\* A sequence of whole turns: user, assistant, user, assistant, ..., the two
\* entries of a turn belonging to one call.
WholeTurns(e) ==
    /\ Len(e) % 2 = 0
    /\ \A j \in 1 .. (Len(e) \div 2) :
            /\ e[2 * j - 1].role = "user"
            /\ e[2 * j].role = "assistant"
            /\ e[2 * j - 1].call = e[2 * j].call

\* C14: after P turns were appended to a conversation, its buffer holds the
\* last min(P, capacity) of them, oldest first, each as its user entry
\* followed by its assistant entry.
C14_NewestTurns ==
    \A i \in Conversations :
        LET a == image_appended[i]
            n == Len(a)
            k == IF n < MAX_IMAGE_CONVERSATION_TURNS THEN n
                 ELSE MAX_IMAGE_CONVERSATION_TURNS
        IN /\ Len(Entries(i)) = 2 * k
           /\ \A j \in 1 .. k :
                /\ Entries(i)[2 * j - 1] = [role |-> "user",
                                            call |-> a[n - k + j]]
                /\ Entries(i)[2 * j] = [role |-> "assistant",
                                        call |-> a[n - k + j]]

\* More turns than the capacity were appended to one conversation.
C14_Witness ==
    \E i \in Conversations :
        /\ Len(image_appended[i]) > MAX_IMAGE_CONVERSATION_TURNS
        /\ Len(Entries(i)) = 2 * MAX_IMAGE_CONVERSATION_TURNS

\* C15: the reset of a conversation that held turns leaves it without entries
\* and leaves every other conversation as it was; and a snapshot taken for a
\* conversation with no append since its reset is empty.
C15_ResetEmpties ==
    [][ \A i \in Conversations :
          /\ (image_appended[i] # <<>> /\ image_appended'[i] = <<>>) =>
                /\ image_histories'[i].entries = <<>>
                /\ \A o \in Conversations \ {i} :
                        image_histories'[o] = image_histories[o]
          /\ \A t \in ImageTasks :
                ( /\ image_tasks[t].pc = "snapshot"
                  /\ image_tasks'[t].pc = "call"
                  /\ image_tasks[t].conversation_id = i
                  /\ image_appended[i] = <<>> )
                => image_tasks'[t].snapshot = <<>> ]_vars

\* A task that appended a turn to a conversation has returned, the
\* conversation was reset afterwards, another task has taken its snapshot of
\* it, and another conversation still holds its entries.
C15_Witness ==
    \E i \in Conversations, t, u \in ImageTasks :
        /\ image_appended[i] = <<>>
        /\ image_tasks[u].pc = "idle"
        /\ image_tasks[u].result = "text"
        /\ image_tasks[u].conversation_id = i
        /\ image_tasks[t].pc = "call"
        /\ image_tasks[t].conversation_id = i
        /\ image_tasks[t].snapshot = <<>>
        /\ \E o \in Conversations \ {i} : Entries(o) # <<>>

\* C16: the snapshot a task has sent with its request consists of whole
\* turns.
C16_SnapshotWholeTurns ==
    \A t \in ImageTasks :
        image_tasks[t].pc = "call" => WholeTurns(image_tasks[t].snapshot)

\* A task awaits its response with a snapshot that holds a turn while
\* another task, of the same conversation, is about to append its own.
C16_Witness ==
    \E t, u \in ImageTasks :
        /\ image_tasks[t].pc = "call"
        /\ Len(image_tasks[t].snapshot) >= 2
        /\ image_tasks[u].pc \in {"wait_append", "append"}
        /\ image_tasks[u].conversation_id = image_tasks[t].conversation_id

\* C17: a task that awaits the response of the model does not hold the image
\* history lock.
C17_NoLockAcrossCall ==
    \A t \in ImageTasks : image_tasks[t].pc = "call" => t \notin image_lock

\* While one task awaits its response another task holds the lock.
C17_Witness ==
    \E t, u \in ImageTasks :
        /\ image_tasks[t].pc = "call"
        /\ image_lock = {u}
        /\ u # t

\* C18: a call that raises or yields no text makes analyze_image return the
\* apology and changes no buffer; and a buffer gets entries only in the step
\* in which a task whose call yielded text appends its turn.
C18_AppendOnlyOnSuccess ==
    [][ /\ \A t \in ImageTasks :
              ( /\ image_tasks[t].pc = "call"
                /\ image_tasks'[t].pc # "call"
                /\ image_tasks'[t].response # "text" )
              => /\ image_tasks'[t].pc = "idle"
                 /\ image_tasks'[t].result = ImageApology
                 /\ image_histories' = image_histories
        /\ \A i \in Conversations :
              ( /\ image_histories'[i].entries # image_histories[i].entries
                /\ image_histories'[i].entries # <<>> )
              => \E t \in ImageTasks :
                    /\ image_tasks[t].pc = "append"
                    /\ image_tasks[t].conversation_id = i
                    /\ image_tasks[t].response = "text"
                    /\ image_tasks'[t].result = "text" ]_vars

\* analyze_image has returned the apology after an empty analysis, and the
\* conversation still holds the turn it held before.
C18_Witness ==
    \E t \in ImageTasks :
        /\ image_tasks[t].pc = "idle"
        /\ image_tasks[t].response = "empty"
        /\ image_tasks[t].result = ImageApology
        /\ Len(image_histories[image_tasks[t].conversation_id].entries) = 2

\* C19: an operation that has returned made at most one remote call, raised
\* nothing and returned a string: the model's text or, after a call, the
\* operation's apology; analyze_image likewise.
C19_OneCallTextAlways ==
    /\ \A k \in TextCallers :
          ai_call[k].pc = "returned" =>
              /\ ai_call[k].requests <= 1
              /\ ~ai_call[k].raised
              /\ ai_call[k].value # {}
              /\ ai_call[k].requests = 1 =>
                    ai_call[k].value \in {{"text"}, {TextApology(ai_call[k].op)}}
    /\ \A t \in ImageTasks :
          /\ image_tasks[t].requests <= 1
          /\ (image_tasks[t].pc = "idle" /\ image_tasks[t].call > 0)
                => image_tasks[t].result \in {"text", ImageApology}

\* The records of history h that are at most `hours` old at `now`.
InWindowRecords(h, now, hours) ==
    SelectSeq(h, LAMBDA msg : msg.timestamp >= now - hours)

\* C21: for a limit >= 1, get_recent_messages returns the in-window records
\* among the last `limit` records of the log, and nothing else: the limit is
\* applied before the time filter.
C21_LimitBeforeFilter ==
    (query.op = "get_recent_messages" /\ query.limit >= 1) =>
        LET h == query.before.message_history
            k == IF query.limit < Len(h) THEN query.limit ELSE Len(h)
            last == SubSeq(h, Len(h) - k + 1, Len(h))
        IN \A w \in query.hours :
              query.value = MapReturned(InWindowRecords(last, query.now, w))

\* The log held two in-window records and a query with limit 1 returned
\* only the newer one.
C21_Witness ==
    /\ query.op = "get_recent_messages"
    /\ query.limit = 1
    /\ Len(query.before.message_history) = 2
    /\ \A w \in query.hours :
          query.before.message_history[1].timestamp >= query.now - w
    /\ Len(query.value) = 1

\* C22: get_user_messages(user_id, hours = h, limit) returns the records that
\* get_recent_messages(hours = h, limit) returns (the in-window records among
\* the last `limit`) whose author is user_id, for every h given, 0 included.
C22_UserQueryRefinesRecent ==
    query.op = "get_user_messages" =>
        \A w \in query.hours :
            query.value =
                MapReturned(SelectSeq(
                    InWindowRecords(
                        PySuffix(query.before.message_history, query.limit),
                        query.now, w),
                    LAMBDA msg : msg.user_id = query.user_id))

\* C30: with limit = MAX_MESSAGE_HISTORY, get_recent_messages returns every
\* record of the log that is inside the window.
C30_DefaultLimitExcludesNothing ==
    (query.op = "get_recent_messages" /\ query.limit = MAX_MESSAGE_HISTORY)
        => \A w \in query.hours :
              query.value =
                  MapReturned(InWindowRecords(query.before.message_history,
                                              query.now, w))

\* More messages than the capacity were stored and a query with the default
\* limit returned the whole log.
C30_Witness ==
    /\ query.op = "get_recent_messages"
    /\ query.limit = MAX_MESSAGE_HISTORY
    /\ \E c \in query.ctx : Len(arrivals[c]) > MAX_MESSAGE_HISTORY
    /\ Len(query.value) = MAX_MESSAGE_HISTORY

\* C23: when the tick, suspended on an eligible chat, resumes without an
\* error and the query over the last SUMMARY_HOURS returns no message, the
\* step sends nothing, changes no last summary, and moves the loop on (to a
\* later chat or to the end); the chat still has no summary of today. And a
\* tick is past that point (summarising or sending) only with messages.
C23_NoMessagesNoSend ==
    [][ /\ ( /\ tick.pc = "get_chat"
             /\ tick'.pc # tick.pc \/ tick'.idx # tick.idx
             /\ tick'.errors = tick.errors
             /\ get_recent_messages(job_chat, clock, SUMMARY_HOURS,
                                    MAX_MESSAGE_HISTORY).value = <<>> )
           => /\ sent' = sent
              /\ last_summary' = last_summary
              /\ tick'.pc \in {"get_chat", "idle"}
              /\ tick'.pc = "get_chat" => tick'.idx > tick.idx
              /\ \A c \in tick.chat_id : \A t \in last_summary'[c] :
                    \A n \in tick.now : DateOf(t) # DateOf(n)
        /\ tick'.pc \in {"generate_summary", "send_message"}
              => tick'.messages # <<>> ]_vars

\* The first tick of the run, inside the window, has gone past the first
\* registered chat, which has no summary, without an error and without a
\* digest: it found no messages for it.
C23_Witness ==
    /\ ticks = 1
    /\ tick.pc = "get_chat"
    /\ tick.idx = 2
    /\ tick.errors = {}
    /\ sent = <<>>
    /\ last_summary[active_chats[1]] = {}

\* C25: with SUMMARY_START_HOUR equal to SUMMARY_END_HOUR no digest is ever
\* sent, no last summary is ever set, and no tick goes past the window test.
C25_ZeroWidthNeverSends ==
    summary_window.start = summary_window.end =>
        /\ sent = <<>>
        /\ \A c \in Chats : last_summary[c] = {}
        /\ tick.pc = "idle"

\* The window is the empty [h, h), and a tick has run at hour h with a
\* registered chat and a message of the last hours in the job's log.
C25_Witness ==
    /\ summary_window.start = summary_window.end
    /\ \E n \in tick.now : HourOf(n) = summary_window.start
    /\ active_chats # <<>>
    /\ \E j \in job_chat : OwnRecent(j) # {}
    /\ sent = <<>>

C27_RegisteredChatsEvaluated ==
    tick.pc = "idle" => tick_pending = {}

\* C28: the buffer of a conversation never holds an entry of a request that
\* had copied the history before a reset of that conversation.
C28_ResetNotRepopulated ==
    \A t \in ImageTasks :
        Task(t).stale =>
            \A k \in 1 .. Len(Entries(Task(t).conversation_id)) :
                Entries(Task(t).conversation_id)[k].call # Task(t).call

\* C29: whenever a successful request appends its turn and the buffer has
\* room for two more entries, the buffer becomes what it was followed by the
\* request's user entry and then its assistant entry: every stored entry is
\* kept, whatever other requests did since this one copied the history.
C29_OverlappingTurnsKept ==
    [][ \A t \in ImageTasks :
          ( /\ Task(t).pc = "append"
            /\ image_tasks'[t].pc = "idle"
            /\ Len(Entries(Task(t).conversation_id)) + 2
                  <= ImageHistoryMaxlen )
          => Entries(Task(t).conversation_id)' =
                Entries(Task(t).conversation_id)
                    \o <<UserEntry(Task(t).call),
                         AssistantEntry(Task(t).call)>> ]_vars

\* Two requests on one conversation overlapped: the one that started second
\* appended first, and the buffer holds both pairs, each whole.
C29_Witness ==
    \E i \in Conversations : \E a, b \in 1 .. MaxImageCalls :
        /\ a < b
        /\ Entries(i) = <<UserEntry(b), AssistantEntry(b),
                          UserEntry(a), AssistantEntry(a)>>

\* C24: two requests get the same conversation id exactly when they have
\* the same chat and the same user (or both have none); so two (chat, user)
\* pairs never share an id, an id with a user never equals a chat-only id,
\* and a request with no user gets the id of its chat alone, str(chat_id).
C24_IdsDistinguishRequests ==
    \A a, b \in 1 .. Len(conversation_ids) :
        LET x == conversation_ids[a]
            y == conversation_ids[b]
        IN /\ x.id = y.id <=>
                    (x.chat_id = y.chat_id /\ x.user_id = y.user_id)
           /\ x.user_id = {} => x.id = Str(x.chat_id)

\* Ids were built for chat 1 with user 12 and for chat 11 with user 2: the
\* digits of the two pairs read the same once put end to end.
C24_Witness ==
    /\ Len(conversation_ids) = 2
    /\ conversation_ids[1].id = <<"1", ":", "1", "2">>
    /\ conversation_ids[2].id = <<"1", "1", ":", "2">>

====
